---- MODULE Spec2Model ----
(***************************************************************************)
(* The game-state engine of the tic-tac-toe front end (App.js): the React  *)
(* state of the App component (history, stepNumber, xIsNext), its event    *)
(* handlers (handleClick, jumpTo, handleReset, handleUndo, handleRedo) and *)
(* the terminal-state detector calculateWinner.                            *)
(*                                                                         *)
(* JavaScript arrays are 0-based, TLA+ sequences 1-based: history[k] of    *)
(* the source is history[k + 1] here (operator At).  A board is a function *)
(* from the cell indices 0..8, so squares[i] keeps the source's index.     *)
(***************************************************************************)
EXTENDS Integers, Sequences, FiniteSets, TLC

VARIABLES
    history,      \* useState([Array(9).fill(null)]): the board snapshots
    stepNumber,   \* useState(0): the cursor into history
    xIsNext,      \* useState(true): the stored turn flag
    last,         \* the command handled last, with the state it was issued in
    gameOverSeen, \* a Win or Draw has been on display since the last reset
    evalSquares,  \* the board handed to the terminal-state detector
    evalResult    \* <<>> before, <<[winnerInfo, isDraw]>> after the evaluation

vars == <<history, stepNumber, xIsNext, last, gameOverSeen, evalSquares, evalResult>>

----------------------------------------------------------------------------
(* Bounds of the model *)

\* A click on an empty cell passes over the empty cells of lower index.  The
\* moves that lead to the displayed board, and the click itself, pass over at
\* most MaxSkips cells in total; clicks on occupied cells are not limited.
MaxSkips == 3

\* jumpTo is called with a step in -1 .. MaxStep when the caller does not
\* keep to the indices of history.
MaxStep == 10

----------------------------------------------------------------------------
(* Values *)

null == "null"

Cells == 0..8

Marks == {"X", "O"}

Boards == [Cells -> Marks \cup {null}]

\* Array(9).fill(null)
EmptyBoard == [c \in Cells |-> null]

\* history[k] of the source
At(h, k) == h[k + 1]

\* the value calculateWinner returns for "no winner" (null in the source)
NoWinner == [winner |-> null, line |-> <<>>]

----------------------------------------------------------------------------
(* calculateWinner *)

lines ==
    << <<0, 1, 2>>, <<3, 4, 5>>, <<6, 7, 8>>,
       <<0, 3, 6>>, <<1, 4, 7>>, <<2, 5, 8>>,
       <<0, 4, 8>>, <<2, 4, 6>> >>

\* the loop body's test without the truthiness test of squares[a]
LineMatchesNoNullTest(squares, l) ==
    /\ squares[l[1]] = squares[l[2]]
    /\ squares[l[1]] = squares[l[3]]

\* the test of the loop body: squares[a] && squares[a] === squares[b] && ...
LineMatches(squares, l) ==
    LET a == l[1]
        b == l[2]
        c == l[3]
    IN  /\ squares[a] # null
        /\ squares[a] = squares[b]
        /\ squares[a] = squares[c]

\* the for loop from index i (1-based here) on
RECURSIVE ScanLines(_, _)
ScanLines(squares, i) ==
    IF i > Len(lines)
    THEN NoWinner
    ELSE IF LineMatches(squares, lines[i])
         THEN [winner |-> squares[lines[i][1]], line |-> lines[i]]
         ELSE ScanLines(squares, i + 1)

\* the loop started at the second line: for (let i = 1; ...)
calculateWinnerSkipsFirstLine(squares) == ScanLines(squares, 2)

calculateWinner(squares) == ScanLines(squares, 1)

\* !winnerInfo && currentSquares.every(Boolean)
IsDrawOf(squares) ==
    /\ calculateWinner(squares) = NoWinner
    /\ \A c \in Cells : squares[c] # null

\* the derived state of one render
Evaluate(squares) ==
    [winnerInfo |-> calculateWinner(squares), isDraw |-> IsDrawOf(squares)]

----------------------------------------------------------------------------
(* Derived state of a render *)

\* the render reads history[stepNumber]; when the index is outside the array
\* the value is undefined and calculateWinner throws, which unmounts the App
Mounted == stepNumber \in 0..(Len(history) - 1)

currentSquares == At(history, stepNumber)

winnerInfo == calculateWinner(currentSquares)

isDraw == IsDrawOf(currentSquares)

----------------------------------------------------------------------------
(* Bookkeeping of the commands *)

Snapshot(cmd, arg) ==
    [cmd |-> cmd, arg |-> arg, history |-> history, stepNumber |-> stepNumber,
     xIsNext |-> xIsNext, gameOverSeen |-> gameOverSeen]

\* the outcome on display after the command is Win or Draw
TerminalShown(h, s) ==
    /\ s \in 0..(Len(h) - 1)
    /\ \/ calculateWinner(At(h, s)) # NoWinner
       \/ IsDrawOf(At(h, s))

Record(cmd, arg) ==
    /\ last' = Snapshot(cmd, arg)
    /\ gameOverSeen' =
           IF cmd = "reset"
           THEN FALSE
           ELSE gameOverSeen \/ TerminalShown(history', stepNumber')

----------------------------------------------------------------------------
(* handleClick *)

\* the guard without the occupancy test
ClickIgnoredOverwrites(i) == winnerInfo # NoWinner

\* the guard without the winner test
ClickIgnoredAfterWin(i) == currentSquares[i] # null

\* if (winnerInfo || currentSquares[i]) return;
ClickIgnored(i) == winnerInfo # NoWinner \/ currentSquares[i] # null

\* the mark chosen without reading the turn flag
MoverAlwaysX == "X"

\* the ternary with its branches swapped: xIsNext ? "O" : "X"
MoverInverted == IF xIsNext THEN "O" ELSE "X"

\* xIsNext ? "X" : "O"
Mover == IF xIsNext THEN "X" ELSE "O"

\* the new board built from an empty array instead of a copy
PlacedSquaresFresh(i) == [EmptyBoard EXCEPT ![i] = IF xIsNext THEN "X" ELSE "O"]

\* squares = currentSquares.slice(); squares[i] = ...
PlacedSquares(i) == [currentSquares EXCEPT ![i] = Mover]

\* history.concat([squares]): the redoable entries are kept
NewHistoryNoPrune(squares) == Append(history, squares)

\* history.slice(0, stepNumber + 1).concat([squares])
NewHistory(squares) == Append(SubSeq(history, 1, stepNumber + 1), squares)

\* handleClick without setStepNumber
handleClickKeepsCursor(i) ==
    IF winnerInfo # NoWinner \/ currentSquares[i] # null
    THEN UNCHANGED <<history, stepNumber, xIsNext>>
    ELSE /\ history' = Append(SubSeq(history, 1, stepNumber + 1),
                              [currentSquares EXCEPT ![i] = IF xIsNext THEN "X" ELSE "O"])
         /\ xIsNext' = ~xIsNext
         /\ UNCHANGED stepNumber

handleClick(i) ==
    IF ClickIgnored(i)
    THEN UNCHANGED <<history, stepNumber, xIsNext>>
    ELSE LET newHistory == NewHistory(PlacedSquares(i))
         IN  /\ history' = newHistory
             /\ stepNumber' = Len(newHistory) - 1
             /\ xIsNext' = ~xIsNext

\* the number of empty cells before cell i
Rank(squares, i) == Cardinality({c \in Cells : c < i /\ squares[c] = null})

\* the empty cells the move from board b1 to board b2 passed over
SkipsOfMove(b1, b2) ==
    Cardinality({c \in Cells : b1[c] = null /\ \E d \in Cells : d > c /\ b1[d] # b2[d]})

\* the cells passed over by the moves that lead to history[k]
RECURSIVE SkipsUpTo(_, _)
SkipsUpTo(h, k) ==
    IF k <= 0
    THEN 0
    ELSE SkipsUpTo(h, k - 1) + SkipsOfMove(At(h, k - 1), At(h, k))

\* the clicks of the end-to-end scenario: play(0), play(4), play(1), play(3),
\* play(2), and then play(5)
ScenarioCells == <<0, 4, 1, 3, 2, 5>>

\* the board after the first k clicks of the scenario, X and O alternating
ScenarioBoard(k) ==
    [c \in Cells |->
        IF \E j \in 1..k : ScenarioCells[j] = c
        THEN IF (CHOOSE j \in 1..k : ScenarioCells[j] = c) % 2 = 1 THEN "X" ELSE "O"
        ELSE null]

\* the history after the first k clicks of the scenario
ScenarioHistory(k) == [j \in 1..(k + 1) |-> ScenarioBoard(j - 1)]

\* the entries up to the cursor are those of the scenario
OnScenario ==
    /\ stepNumber < Len(ScenarioCells)
    /\ SubSeq(history, 1, stepNumber + 1) = ScenarioHistory(stepNumber)

\* the clicks offered: on an occupied cell, on an empty cell within the
\* bound, and the next click of the scenario while the game follows it
ClickInputs ==
    LET skipped == SkipsUpTo(history, stepNumber)
    IN  {i \in Cells :
            \/ currentSquares[i] # null
            \/ skipped + Rank(currentSquares, i) <= MaxSkips
            \/ OnScenario /\ i = ScenarioCells[stepNumber + 1]}

Click ==
    \E i \in ClickInputs :
        /\ handleClick(i)
        /\ Record("play", i)
        /\ UNCHANGED <<evalSquares, evalResult>>

----------------------------------------------------------------------------
(* jumpTo, handleReset, handleUndo, handleRedo *)

\* step % 2 === 0
IsEven(n) == n % 2 = 0

\* jumpTo without setXIsNext
jumpToKeepsTurn(step) ==
    /\ stepNumber' = step
    /\ UNCHANGED <<history, xIsNext>>

\* jumpTo with the turn test inverted: step % 2 !== 0
jumpToInvertedTurn(step) ==
    /\ stepNumber' = step
    /\ xIsNext' = ~IsEven(step)
    /\ UNCHANGED history

jumpTo(step) ==
    /\ stepNumber' = step
    /\ xIsNext' = IsEven(step)
    /\ UNCHANGED history

\* handleReset without setXIsNext(true)
handleResetKeepsTurn ==
    /\ history' = <<EmptyBoard>>
    /\ stepNumber' = 0
    /\ UNCHANGED xIsNext

handleReset ==
    /\ history' = <<EmptyBoard>>
    /\ stepNumber' = 0
    /\ xIsNext' = TRUE

\* if (stepNumber >= 0)
UndoEnabledAtStart == stepNumber >= 0

\* if (stepNumber > 0)
UndoEnabled == stepNumber > 0

\* handleUndo deriving the turn from the cursor before the step
handleUndoStaleTurn ==
    IF stepNumber > 0
    THEN /\ stepNumber' = stepNumber - 1
         /\ xIsNext' = IsEven(stepNumber)
         /\ UNCHANGED history
    ELSE UNCHANGED <<history, stepNumber, xIsNext>>

handleUndo ==
    IF UndoEnabled
    THEN /\ stepNumber' = stepNumber - 1
         /\ xIsNext' = IsEven(stepNumber - 1)
         /\ UNCHANGED history
    ELSE UNCHANGED <<history, stepNumber, xIsNext>>

\* if (stepNumber < history.length)
RedoEnabledOffByOne == stepNumber < Len(history)

\* if (stepNumber < history.length - 1)
RedoEnabled == stepNumber < Len(history) - 1

\* handleRedo deriving the turn from the cursor before the step
handleRedoStaleTurn ==
    IF stepNumber < Len(history) - 1
    THEN /\ stepNumber' = stepNumber + 1
         /\ xIsNext' = IsEven(stepNumber)
         /\ UNCHANGED history
    ELSE UNCHANGED <<history, stepNumber, xIsNext>>

handleRedo ==
    IF RedoEnabled
    THEN /\ stepNumber' = stepNumber + 1
         /\ xIsNext' = IsEven(stepNumber + 1)
         /\ UNCHANGED history
    ELSE UNCHANGED <<history, stepNumber, xIsNext>>

\* the steps a history-replay view offers: the indices of history
ValidSteps == 0..(Len(history) - 1)

\* the steps of a caller that does not keep to them
AnySteps == (-1)..MaxStep

Jump ==
    \E step \in ValidSteps :
        /\ jumpTo(step)
        /\ Record("jumpTo", step)
        /\ UNCHANGED <<evalSquares, evalResult>>

JumpAny ==
    \E step \in AnySteps :
        /\ jumpTo(step)
        /\ Record("jumpTo", step)
        /\ UNCHANGED <<evalSquares, evalResult>>

Reset ==
    /\ handleReset
    /\ Record("reset", 0)
    /\ UNCHANGED <<evalSquares, evalResult>>

Undo ==
    /\ handleUndo
    /\ Record("undo", 0)
    /\ UNCHANGED <<evalSquares, evalResult>>

Redo ==
    /\ handleRedo
    /\ Record("redo", 0)
    /\ UNCHANGED <<evalSquares, evalResult>>

----------------------------------------------------------------------------
(* Specifications *)

InitEngine ==
    /\ history = <<EmptyBoard>>
    /\ stepNumber = 0
    /\ xIsNext = TRUE
    /\ gameOverSeen = FALSE
    /\ last = Snapshot("init", 0)

Init ==
    /\ InitEngine
    /\ evalSquares = EmptyBoard
    /\ evalResult = <<>>

\* the engine driven with in-range steps only
Next ==
    \/ Click
    \/ Jump
    \/ Reset
    \/ Undo
    \/ Redo

Spec == Init /\ [][Next]_vars

\* the engine driven with any step; no handler runs once the App is unmounted
NextAnyStep ==
    /\ Mounted
    /\ \/ Click
       \/ JumpAny
       \/ Reset
       \/ Undo
       \/ Redo

SpecAnyStep == Init /\ [][NextAnyStep]_vars

\* the terminal-state detector on every board of {null, X, O}^9
InitEval ==
    /\ InitEngine
    /\ evalSquares \in Boards
    /\ evalResult = <<>>

EvaluateBoard ==
    /\ evalResult = <<>>
    /\ evalResult' = <<Evaluate(evalSquares)>>
    /\ UNCHANGED <<history, stepNumber, xIsNext, last, gameOverSeen, evalSquares>>

NextEval == EvaluateBoard

SpecEval == InitEval /\ [][NextEval]_vars

----------------------------------------------------------------------------
(* Reference definitions used by the properties *)

\* the eight triples: rows, then columns, then the two diagonals
RefLines ==
    [k \in 1..8 |->
        IF k <= 3 THEN <<3 * (k - 1), 3 * (k - 1) + 1, 3 * (k - 1) + 2>>
        ELSE IF k <= 6 THEN <<k - 4, k - 1, k + 2>>
        ELSE IF k = 7 THEN <<0, 4, 8>>
        ELSE <<2, 4, 6>>]

Complete(b, k) == \E m \in Marks : \A j \in 1..3 : b[RefLines[k][j]] = m

HasLine(b) == \E k \in 1..8 : Complete(b, k)

Full(b) == \A c \in Cells : b[c] \in Marks

RefOutcome(b) ==
    IF HasLine(b)
    THEN LET k == CHOOSE n \in 1..8 :
                      /\ Complete(b, n)
                      /\ \A j \in 1..(n - 1) : ~Complete(b, j)
         IN  [kind |-> "Win", mark |-> b[RefLines[k][1]], line |-> RefLines[k]]
    ELSE IF Full(b)
         THEN [kind |-> "Draw", mark |-> null, line |-> <<>>]
         ELSE [kind |-> "InProgress", mark |-> null, line |-> <<>>]

RefTerminal(b) == HasLine(b) \/ Full(b)

\* the board on display when the last command was issued
PreBoard == At(last.history, last.stepNumber)

\* the last command left history, cursor and turn as they were
StateUnchanged ==
    /\ history = last.history
    /\ stepNumber = last.stepNumber
    /\ xIsNext = last.xIsNext

\* the last command was a click that the preconditions of play admit
PlayedLegally ==
    /\ last.cmd = "play"
    /\ ~HasLine(PreBoard)
    /\ PreBoard[last.arg] = null

ParityMark(k) == IF k % 2 = 0 THEN "X" ELSE "O"

----------------------------------------------------------------------------
(* Properties *)

\* C1: a play on an Empty cell of a board without a winning line appends the
\* board at the cursor with that cell set to the mover's mark (X at an even
\* cursor, O at an odd one), and the cursor becomes len(history) - 1.
C1_PlayPlacesMoverMark ==
    PlayedLegally =>
        /\ Len(history) = last.stepNumber + 2
        /\ At(history, Len(history) - 1) =
               [PreBoard EXCEPT ![last.arg] = ParityMark(last.stepNumber)]
        /\ stepNumber = Len(history) - 1

C1_Witness ==
    /\ PlayedLegally
    /\ last.stepNumber % 2 = 1
    /\ At(history, stepNumber)[last.arg] = "O"

\* C2: a play on a cell that is not Empty, or on any cell when the outcome of
\* the board at the cursor is Win or Draw, leaves history, cursor and turn
\* unchanged.
C2_IgnoredPlayChangesNothing ==
    (/\ last.cmd = "play"
     /\ PreBoard[last.arg] # null \/ RefTerminal(PreBoard))
        => StateUnchanged

C2_Witness ==
    /\ last.cmd = "play"
    /\ HasLine(PreBoard)
    /\ PreBoard[last.arg] = null
    /\ StateUnchanged

\* C3: a successful play made with the cursor c below the tip keeps the
\* entries 0..c, discards every later entry and leaves len(history) = c + 2
\* with the cursor at the tip, so that redo is a no-op; after play, play,
\* undo, play the length is 3.
C3_PlayPrunesBranch ==
    (PlayedLegally /\ last.stepNumber < Len(last.history) - 1) =>
        /\ Len(history) = last.stepNumber + 2
        /\ SubSeq(history, 1, last.stepNumber + 1) =
               SubSeq(last.history, 1, last.stepNumber + 1)
        /\ ~(stepNumber < Len(history) - 1)
        /\ (last.stepNumber = 1 /\ Len(last.history) = 3) => Len(history) = 3

C3_Witness ==
    /\ PlayedLegally
    /\ last.stepNumber = 1
    /\ Len(last.history) = 3
    /\ Len(history) = 3
    /\ At(history, 2) # At(last.history, 2)

\* the outcome the view reports: winner first, then draw, else in progress
ViewOutcome(r) ==
    IF r.winnerInfo # NoWinner
    THEN [kind |-> "Win", mark |-> r.winnerInfo.winner, line |-> r.winnerInfo.line]
    ELSE IF r.isDraw
         THEN [kind |-> "Draw", mark |-> null, line |-> <<>>]
         ELSE [kind |-> "InProgress", mark |-> null, line |-> <<>>]

\* C4: on every board of {Empty, X, O}^9 the evaluation reports Win(mark,
\* triple) for the first complete triple in the order rows, columns,
\* diagonals; Draw if there is none and the board is full; InProgress
\* otherwise.
C4_EvaluateAgreesWithReference ==
    evalResult # <<>> => ViewOutcome(evalResult[1]) = RefOutcome(evalSquares)

C4_Witness ==
    /\ evalResult # <<>>
    /\ Full(evalSquares)
    /\ HasLine(evalSquares)
    /\ ~evalResult[1].isDraw
    /\ evalResult[1].winnerInfo # NoWinner

\* C5 as amended: while the outcome of the board at the cursor is Win or
\* Draw, no play, undo, redo or jumpTo changes history.
C5_TerminalBoardFreezesHistory ==
    (/\ last.cmd \in {"play", "undo", "redo", "jumpTo"}
     /\ RefTerminal(PreBoard))
        => history = last.history

C5_Witness ==
    /\ last.cmd = "play"
    /\ Full(PreBoard)
    /\ ~HasLine(PreBoard)
    /\ history = last.history

\* C5 as stated: once a Win or Draw has been on display, history stays as it
\* was under every command other than reset.
C5_HistoryFrozenUntilReset ==
    (last.gameOverSeen /\ last.cmd # "reset") => history = last.history

\* C6: history has at least one entry, history[0] is the all-Empty board and
\* 0 <= cursor <= len(history) - 1.
C6_CursorWithinHistory ==
    /\ Len(history) >= 1
    /\ At(history, 0) = EmptyBoard
    /\ 0 <= stepNumber
    /\ stepNumber <= Len(history) - 1

C6_Witness ==
    /\ last.cmd = "redo"
    /\ last.stepNumber = Len(history) - 2
    /\ stepNumber = Len(history) - 1

\* C7: jumpTo with a step outside [0, len(history) - 1] leaves the cursor on
\* an existing entry of history and leaves history unchanged.
C7_JumpOutOfRangeKeepsCursorValid ==
    (/\ last.cmd = "jumpTo"
     /\ last.arg \notin 0..(Len(last.history) - 1))
        => /\ stepNumber \in 0..(Len(history) - 1)
           /\ history = last.history

\* C8: the stored turn flag is true exactly when the cursor is even.
C8_TurnParity == xIsNext <=> (stepNumber % 2 = 0)

C8_Witness ==
    /\ last.cmd = "jumpTo"
    /\ last.xIsNext
    /\ stepNumber % 2 = 1
    /\ ~xIsNext

\* C9: consecutive entries history[k], history[k+1] differ in exactly one
\* cell, Empty in history[k] and holding the mark of the mover at k (X if k
\* is even, O if k is odd) in history[k+1].
C9_OneCellPerPly ==
    \A k \in 0..(Len(history) - 2) :
        \E c \in Cells :
            /\ At(history, k)[c] = null
            /\ At(history, k + 1)[c] = ParityMark(k)
            /\ \A d \in Cells \ {c} : At(history, k + 1)[d] = At(history, k)[d]

C9_Witness ==
    /\ PlayedLegally
    /\ last.stepNumber < Len(last.history) - 1
    /\ last.stepNumber >= 2
    /\ history # last.history

\* C10: undo at cursor 0 and redo at cursor len(history) - 1 leave history,
\* cursor and turn unchanged.
C10_UndoRedoAtEndsChangeNothing ==
    /\ (last.cmd = "undo" /\ last.stepNumber = 0) => StateUnchanged
    /\ (last.cmd = "redo" /\ last.stepNumber = Len(last.history) - 1) => StateUnchanged

C10_Witness ==
    /\ last.cmd = "redo"
    /\ Len(last.history) > 1
    /\ last.stepNumber = Len(last.history) - 1
    /\ StateUnchanged

\* C11: undo with cursor > 0 produces exactly the state jumpTo(cursor - 1)
\* produces, and redo with cursor < len(history) - 1 exactly the state
\* jumpTo(cursor + 1) produces.
C11_UndoRedoAreJumps ==
    [][/\ (last'.cmd = "undo" /\ stepNumber > 0) => jumpTo(stepNumber - 1)
       /\ (last'.cmd = "redo" /\ stepNumber < Len(history) - 1)
              => jumpTo(stepNumber + 1)]_vars

C11_Witness ==
    /\ last.cmd = "undo"
    /\ last.stepNumber > 0
    /\ stepNumber = last.stepNumber - 1
    /\ xIsNext # last.xIsNext

\* C12: reset yields the initial state, history = [EmptyBoard], cursor 0 and
\* PlayerX to move, whatever the length of the game and the cursor before.
C12_ResetRestoresInitialState ==
    last.cmd = "reset" =>
        /\ history = <<[c \in 0..8 |-> null]>>
        /\ stepNumber = 0
        /\ xIsNext = TRUE

C12_Witness ==
    /\ last.cmd = "reset"
    /\ Len(last.history) = 10
    /\ last.stepNumber % 2 = 1
    /\ Len(history) = 1

\* C13: jumpTo(step) with step in [0, len(history) - 1] sets the cursor to
\* step and the turn to PlayerX iff step is even, and leaves history
\* unchanged; undo and redo never change history.
C13_JumpSetsCursorKeepsHistory ==
    /\ (last.cmd = "jumpTo" /\ last.arg \in 0..(Len(last.history) - 1)) =>
           /\ stepNumber = last.arg
           /\ xIsNext = (last.arg \in {0, 2, 4, 6, 8})
           /\ history = last.history
    /\ last.cmd \in {"undo", "redo"} => history = last.history

C13_Witness ==
    /\ last.cmd = "jumpTo"
    /\ last.arg # last.stepNumber
    /\ last.arg % 2 = 1
    /\ stepNumber = last.arg
    /\ Len(history) >= 4

\* C14: from a fresh engine play(0), play(4), play(1), play(3), play(2)
\* places X, O, X, O, X in that order, the view then reports Win(PlayerX,
\* line {0,1,2}), and a subsequent play(5) leaves the state unchanged.
C14_EndToEndScenario ==
    /\ \A k \in 0..4 :
           (/\ last.cmd = "play"
            /\ last.arg = ScenarioCells[k + 1]
            /\ last.history = ScenarioHistory(k)
            /\ last.stepNumber = k
            /\ last.xIsNext = (k \in {0, 2, 4}))
               => /\ history = ScenarioHistory(k + 1)
                  /\ stepNumber = k + 1
                  /\ xIsNext = (k + 1 \in {0, 2, 4})
    /\ (history = ScenarioHistory(5) /\ stepNumber = 5) =>
           ViewOutcome(Evaluate(currentSquares)) =
               [kind |-> "Win", mark |-> "X", line |-> <<0, 1, 2>>]
    /\ (/\ last.cmd = "play"
        /\ last.arg = 5
        /\ last.history = ScenarioHistory(5)
        /\ last.stepNumber = 5)
           => StateUnchanged

C14_Witness ==
    /\ last.cmd = "play"
    /\ last.arg = 5
    /\ last.history = ScenarioHistory(5)
    /\ last.stepNumber = 5
    /\ StateUnchanged
    /\ currentSquares =
           [c \in Cells |->
               IF c \in {0, 1, 2} THEN "X" ELSE IF c \in {3, 4} THEN "O" ELSE null]

\* mark m holds a complete triple of board b
LineOf(b, m) == \E k \in 1..8 : \A j \in 1..3 : b[RefLines[k][j]] = m

\* C15: no board in history holds a complete triple for X and also one for
\* O, so every complete triple of a board carries the mark the scan reports
\* as the winner.
C15_OnlyOnePlayerHasLine ==
    \A k \in 0..(Len(history) - 1) :
        /\ ~(LineOf(At(history, k), "X") /\ LineOf(At(history, k), "O"))
        /\ \A n \in 1..8 :
               Complete(At(history, k), n) =>
                   At(history, k)[RefLines[n][1]] = calculateWinner(At(history, k)).winner

C15_Witness ==
    /\ LineOf(currentSquares, "O")
    /\ Cardinality({c \in Cells : currentSquares[c] = "X"}) = 4
    /\ winnerInfo.winner = "O"

\* C16: only the tip of history can be terminal: every history[k] with
\* k < len(history) - 1 has no winning line and is not full; so after undo
\* from a finished game the board at the cursor is InProgress.
C16_OnlyTipCanBeTerminal ==
    /\ \A k \in 0..(Len(history) - 2) : ~RefTerminal(At(history, k))
    /\ (last.cmd = "undo" /\ RefTerminal(PreBoard)) =>
           /\ stepNumber = last.stepNumber - 1
           /\ RefOutcome(currentSquares).kind = "InProgress"

C16_Witness ==
    /\ last.cmd = "undo"
    /\ RefTerminal(PreBoard)
    /\ ~RefTerminal(currentSquares)
    /\ RefTerminal(At(history, Len(history) - 1))

MarksOf(b, m) == Cardinality({c \in Cells : b[c] = m})

\* C17: history[k] holds exactly k marks, ceil(k/2) of them X and
\* floor(k/2) of them O; hence len(history) <= 10 and cursor <= 9.
C17_MarkCounts ==
    /\ \A k \in 0..(Len(history) - 1) :
           /\ MarksOf(At(history, k), "X") = (k + 1) \div 2
           /\ MarksOf(At(history, k), "O") = k \div 2
           /\ MarksOf(At(history, k), null) = 9 - k
    /\ Len(history) <= 10
    /\ stepNumber <= 9

C17_Witness ==
    /\ Len(history) = 10
    /\ stepNumber = 9
    /\ MarksOf(currentSquares, "X") = 5

\* C18: if the board at cursor k has a winning line then k >= 5 and the
\* winning mark is X when k is odd and O when k is even: the winner is the
\* player who made the last move, not the one whose turn the parity shows.
C18_WinnerMadeLastMove ==
    HasLine(currentSquares) =>
        /\ stepNumber >= 5
        /\ winnerInfo.winner = (IF stepNumber % 2 = 1 THEN "X" ELSE "O")
        /\ winnerInfo.winner # ParityMark(stepNumber)

C18_Witness ==
    /\ HasLine(currentSquares)
    /\ stepNumber = 6
    /\ winnerInfo.winner = "O"
    /\ xIsNext

\* C19: while the outcome at the cursor is InProgress some play(i) changes
\* the state; every state-changing play moves the cursor forward by one; the
\* cursor never exceeds 9 and the board at cursor 9 is terminal, so a run of
\* state-changing plays from cursor c ends in Win or Draw after at most
\* 9 - c plays; on a terminal board no play changes the state.
C19_PlayingForwardTerminates ==
    /\ ~RefTerminal(currentSquares) => \E i \in Cells : ~ClickIgnored(i)
    /\ RefTerminal(currentSquares) => \A i \in Cells : ClickIgnored(i)
    /\ (last.cmd = "play" /\ ~StateUnchanged) =>
           /\ stepNumber = last.stepNumber + 1
           /\ 9 - stepNumber < 9 - last.stepNumber
    /\ stepNumber <= 9
    /\ stepNumber = 9 => RefTerminal(currentSquares)
    /\ (last.cmd = "play" /\ RefTerminal(PreBoard)) => StateUnchanged

C19_Witness ==
    /\ last.cmd = "play"
    /\ ~StateUnchanged
    /\ stepNumber = 9
    /\ RefOutcome(currentSquares).kind = "Draw"

\* C20: from a state with cursor > 0, undo followed by redo returns the same
\* history, cursor and turn; from a state with cursor < len(history) - 1,
\* redo followed by undo does the same.
C20_UndoRedoAreInverse ==
    [][/\ (/\ last.cmd = "undo"
           /\ last.stepNumber > 0
           /\ last'.cmd = "redo")
              => /\ history' = last.history
                 /\ stepNumber' = last.stepNumber
                 /\ xIsNext' = last.xIsNext
       /\ (/\ last.cmd = "redo"
           /\ last.stepNumber < Len(last.history) - 1
           /\ last'.cmd = "undo")
              => /\ history' = last.history
                 /\ stepNumber' = last.stepNumber
                 /\ xIsNext' = last.xIsNext]_vars

C20_Witness ==
    /\ last.cmd = "redo"
    /\ last.stepNumber > 0
    /\ last.stepNumber < Len(last.history) - 1
    /\ stepNumber = last.stepNumber + 1
    /\ history = last.history
    /\ xIsNext # last.xIsNext

====
